---- MODULE Spec2Model ----
(***************************************************************************)
(* Hangman (src/Hangman/main.py): the loading of the word list, the menu   *)
(* loop, the initialisation of a round (Normal and Easy mode), the turn    *)
(* loop of play_round and the end-of-round report.                         *)
(*                                                                         *)
(* A Python str is modelled as a sequence of Unicode code points, so that  *)
(* str.upper(), str.isalpha() and the comparison "А" <= char <= "Я" are    *)
(* computed as Python computes them.  The list guessed_letters is modelled *)
(* as a bag: the program only appends to it, tests membership in it and    *)
(* prints it sorted, so the order of its elements is never observed, while *)
(* the number of copies of an element is kept.  The code points that occur:*)
(*   1040 А  1041 Б  1042 В  1043 Г  1044 Д  1045 Е  1071 Я  1025 Ё        *)
(*   1072 а  1105 ё      (lower case of А and Ё)                           *)
(*   7296 U+1C80 CYRILLIC SMALL LETTER ROUNDED VE (upper case: В)          *)
(*   1030 І  (Ukrainian/Belarusian I)   67 C   99 c   223 ß (upper: SS)    *)
(*   49 '1'  45 '-'  95 '_'  10 newline                                    *)
(*   65 A  84 T  90 Z  1050 К  1054 О  1058 Т   (the scripted round)        *)
(***************************************************************************)
EXTENDS Integers, Sequences, FiniteSets, Bags

VARIABLES
    WORDS,      \* the global list of words
    pc,         \* position of main(): "load", "menu", "start", "round", "ended", "exit"
    game_mode,  \* main()'s local game_mode, the value show_menu returned
    state,      \* the GameState dict of the round
    output,     \* the kind of the last message printed
    submitted   \* history: the letters the player has submitted this round

vars == <<WORDS, pc, game_mode, state, output, submitted>>

(* ------------------------------ bounds --------------------------------- *)

\* Longest line of words.txt that is drawn as the secret of a played round.
MaxWordLen == 3

\* Longest line of words.txt on which initialize_game alone is explored.
MaxInitWordLen == 4

\* The longest text of words.txt, in characters, where the file itself is explored.
MaxFileLen == 4

(* ------------------------- program constants --------------------------- *)

EASY_MODE_LETTERS == 2
MAX_ERRORS == 6
PLACEHOLDER == 95
NEWLINE == 10
CYR_A == 1040
CYR_YA == 1071
CYR_YO == 1025

(* --------------------------- input domains ----------------------------- *)

\* Characters of the lines of words.txt: а, Б and the Latin c.
WordChars == {1072, 1041, 99}

RECURSIVE SeqsUpTo(_, _)
SeqsUpTo(S, n) ==
    IF n = 0 THEN {<<>>}
    ELSE LET shorter == SeqsUpTo(S, n - 1)
         IN  shorter \cup {Append(s, c) : s \in {t \in shorter : Len(t) = n - 1}, c \in S}

\* The lines of words.txt that are drawn as the secret.
WordLines == SeqsUpTo(WordChars, MaxWordLen)

LongWordLines == SeqsUpTo(WordChars, MaxInitWordLen)

\* The contents of a words.txt that holds one of the given lines.
OneLineFiles(lines) == {Append(line, NEWLINE) : line \in lines}

\* Raw strings input() can return in a turn.
Inputs ==
    {<<c>> : c \in {1040, 1041, 1042, 1043, 1044, 1045, 1071, 1025,
                    1072, 1105, 7296, 1030, 67, 99, 223, 49, 45}}
    \cup {<<>>, <<1040, 1041>>}

MenuChoices == {"easy", "normal", "exit"}

(* ------------------------------ helpers -------------------------------- *)

Range(s) == {s[i] : i \in DOMAIN s}

\* x in s, for a str or the list mask s and a single element x.
In(x, s) == \E i \in DOMAIN s : s[i] = x

\* str.upper() of one character (Unicode case mapping), as a string.
UpperChar(c) ==
    IF c >= 1072 /\ c <= 1103 THEN <<c - 32>>
    ELSE IF c >= 1104 /\ c <= 1119 THEN <<c - 80>>
    ELSE IF c >= 97 /\ c <= 122 THEN <<c - 32>>
    ELSE IF c = 7296 THEN <<1042>>
    ELSE IF c = 223 THEN <<83, 83>>
    ELSE <<c>>

RECURSIVE Upper(_)
Upper(s) == IF s = <<>> THEN <<>> ELSE UpperChar(Head(s)) \o Upper(Tail(s))

\* str.isalpha() of a one-character string.
IsAlpha(c) ==
    \/ c >= 65 /\ c <= 90
    \/ c >= 97 /\ c <= 122
    \/ c = 223
    \/ c >= 1024 /\ c <= 1153
    \/ c >= 7296 /\ c <= 7304

\* Mutant of IsValidRussianLetter: a letter of any alphabet is accepted.
IsValidAnyLetter(char) == Len(char) = 1 /\ IsAlpha(char[1])

IsValidRussianLetter(char) ==
    /\ Len(char) = 1
    /\ IsAlpha(char[1])
    /\ (CYR_A <= char[1] /\ char[1] <= CYR_YA) \/ char[1] = CYR_YO

\* str.splitlines() of the file's text, for the line boundary "\n".
RECURSIVE SplitLines(_)
SplitLines(text) ==
    IF text = <<>> THEN <<>>
    ELSE IF \E k \in DOMAIN text : text[k] = NEWLINE
    THEN LET k == CHOOSE i \in DOMAIN text :
                      text[i] = NEWLINE /\ \A j \in 1..(i - 1) : text[j] # NEWLINE
         IN  <<SubSeq(text, 1, k - 1)>> \o SplitLines(SubSeq(text, k + 1, Len(text)))
    ELSE <<text>>

\* The words choice(WORDS) can return; none when get_random_word raises
\* RuntimeError on an empty list (main never gets there: load_words has
\* raised ValueError on an empty list and main has exited).
GetRandomWord(words) == Range(words)

CreateWordMask(word) == [i \in 1..Len(word) |-> PLACEHOLDER]

\* Mutant of RevealLetter: the comparison with word[i] is lost.
RevealLetterEverywhere(st, letter) ==
    [st EXCEPT !.mask = [i \in DOMAIN st.mask |-> letter]]

\* Mutant of RevealLetter: the loop stops at the first matching position.
RevealLetterFirstOnly(st, letter) ==
    [st EXCEPT !.mask = [i \in DOMAIN st.mask |->
        IF /\ i \in DOMAIN st.word
           /\ st.word[i] = letter
           /\ \A j \in 1..(i - 1) : st.word[j] # letter
        THEN letter ELSE st.mask[i]]]

RevealLetter(st, letter) ==
    [st EXCEPT !.mask = [i \in DOMAIN st.mask |->
        IF i \in DOMAIN st.word /\ st.word[i] = letter THEN letter ELSE st.mask[i]]]

\* Mutant of UpdateWordMask: the else is lost, every accepted guess counts an error.
UpdateWordMaskAlwaysCounts(st, letter) ==
    LET appended == [st EXCEPT !.guessed_letters = @ (+) SetToBag({letter}),
                               !.error_count = @ + 1]
    IN  IF In(letter, st.word) THEN RevealLetter(appended, letter) ELSE appended

\* Mutant of UpdateWordMask: a miss is recorded but not counted.
UpdateWordMaskNeverCounts(st, letter) ==
    LET guessed == [st EXCEPT !.guessed_letters = @ (+) SetToBag({letter})]
    IN  IF In(letter, st.word) THEN RevealLetter(guessed, letter) ELSE guessed

UpdateWordMask(st, letter) ==
    LET appended == [st EXCEPT !.guessed_letters = @ (+) SetToBag({letter})]
    IN  IF In(letter, st.word)
        THEN RevealLetter(appended, letter)
        ELSE [appended EXCEPT !.error_count = @ + 1]

\* Counter(word)[c]
Count(word, c) == Cardinality({i \in DOMAIN word : word[i] = c})

SingleOccurrenceLetters(word) == {c \in Range(word) : Count(word, c) = 1}

\* Mutant of SelectLettersForEasy: with fewer than two single letters, one letter
\* that occurs exactly twice is drawn.
SelectLettersForEasyWithPairs(word) ==
    IF Cardinality(SingleOccurrenceLetters(word)) >= EASY_MODE_LETTERS
    THEN {s \in SUBSET SingleOccurrenceLetters(word) : Cardinality(s) = EASY_MODE_LETTERS}
    ELSE IF \E c \in Range(word) : Count(word, c) = 2
    THEN {{c} : c \in {d \in Range(word) : Count(word, d) = 2}}
    ELSE {{}}

\* Mutant of SelectLettersForEasy: > for >=.
SelectLettersForEasyStrict(word) ==
    IF Cardinality(SingleOccurrenceLetters(word)) > EASY_MODE_LETTERS
    THEN {s \in SUBSET SingleOccurrenceLetters(word) : Cardinality(s) = EASY_MODE_LETTERS}
    ELSE {{}}

\* The results select_letters_for_easy can return, each as the set of its
\* elements: sample() draws EASY_MODE_LETTERS distinct elements of the list.
SelectLettersForEasy(word) ==
    IF Cardinality(SingleOccurrenceLetters(word)) >= EASY_MODE_LETTERS
    THEN {s \in SUBSET SingleOccurrenceLetters(word) : Cardinality(s) = EASY_MODE_LETTERS}
    ELSE {{}}

\* Mutant of RevealAll: the revealed letters are not recorded in guessed_letters.
RECURSIVE RevealAllUnrecorded(_, _)
RevealAllUnrecorded(st, letters) ==
    IF letters = {} THEN st
    ELSE LET letter == CHOOSE x \in letters : TRUE
         IN  RevealAllUnrecorded(RevealLetter(st, letter), letters \ {letter})

\* The loop of initialize_game over letters_to_reveal.
RECURSIVE RevealAll(_, _)
RevealAll(st, letters) ==
    IF letters = {} THEN st
    ELSE LET letter == CHOOSE x \in letters : TRUE
         IN  RevealAll([RevealLetter(st, letter)
                            EXCEPT !.guessed_letters = @ (+) SetToBag({letter})],
                       letters \ {letter})

\* Mutant of InitialState: the mode stays Easy when nothing is revealed.
InitialStateKeepsMode(line, mode, letters_to_reveal) ==
    LET word == Upper(line)
        fresh == [word |-> word,
                  mask |-> CreateWordMask(word),
                  error_count |-> 0,
                  guessed_letters |-> EmptyBag,
                  max_errors |-> MAX_ERRORS,
                  game_mode |-> mode]
    IN  IF mode = "easy" THEN RevealAll(fresh, letters_to_reveal) ELSE fresh

\* The state initialize_game returns for the drawn line and the sampled letters.
InitialState(line, mode, letters_to_reveal) ==
    LET word == Upper(line)
        fresh == [word |-> word,
                  mask |-> CreateWordMask(word),
                  error_count |-> 0,
                  guessed_letters |-> EmptyBag,
                  max_errors |-> MAX_ERRORS,
                  game_mode |-> mode]
    IN  IF mode = "easy"
        THEN IF letters_to_reveal = {}
             THEN [fresh EXCEPT !.game_mode = "normal"]
             ELSE RevealAll(fresh, letters_to_reveal)
        ELSE fresh

\* Mutant of RoundContinues: <= for <.
RoundContinuesOffByOne(st) == st.error_count <= st.max_errors /\ In(PLACEHOLDER, st.mask)

\* Mutant of RoundContinues: or for and.
RoundContinuesEither(st) == st.error_count < st.max_errors \/ In(PLACEHOLDER, st.mask)

\* The condition of play_round's while loop.
RoundContinues(st) == st.error_count < st.max_errors /\ In(PLACEHOLDER, st.mask)

\* Mutant of EndMessage: > for >=.
EndMessageStrict(st) == IF st.error_count > st.max_errors THEN "loss" ELSE "win"

\* Mutant of EndMessage: the mask is tested first.
EndMessageMaskFirst(st) == IF ~In(PLACEHOLDER, st.mask) THEN "win" ELSE "loss"

\* The message check_game_end prints.
EndMessage(st) == IF st.error_count >= st.max_errors THEN "loss" ELSE "win"

\* Mutant of AlreadyGuessed: the test is lost.
AlreadyGuessedNever(st, letter) == FALSE

\* Mutant of AlreadyGuessed: the mask is searched instead of guessed_letters.
AlreadyGuessedIfRevealed(st, letter) == In(letter, st.mask)

\* player_letter in state["guessed_letters"]
AlreadyGuessed(st, letter) == BagIn(letter, st.guessed_letters)

NoState ==
    [word |-> <<>>, mask |-> <<>>, error_count |-> 0, guessed_letters |-> EmptyBag,
     max_errors |-> 0, game_mode |-> "none"]

(* ------------------------------ actions -------------------------------- *)

Init ==
    /\ WORDS = <<>>
    /\ pc = "load"
    /\ game_mode = "none"
    /\ state = NoState
    /\ output = "none"
    /\ submitted = {}

\* main's call of load_words: words.txt is missing (FileNotFoundError), or its
\* text is split into WORDS and an empty list raises ValueError; main exits on both.
LoadWords(found, text) ==
    /\ pc = "load"
    /\ IF ~found
       THEN /\ pc' = "exit"
            /\ output' = "words_not_found"
            /\ UNCHANGED WORDS
       ELSE /\ WORDS' = SplitLines(text)
            /\ pc' = IF SplitLines(text) = <<>> THEN "exit" ELSE "menu"
            /\ output' = IF SplitLines(text) = <<>> THEN "words_empty" ELSE "none"
    /\ UNCHANGED <<game_mode, state>>

\* show_menu returns the chosen mode; "exit" ends main's loop.
ShowMenu(choice) ==
    /\ pc = "menu"
    /\ game_mode' = choice
    /\ pc' = IF choice = "exit" THEN "exit" ELSE "start"
    /\ output' = IF choice = "exit" THEN "goodbye" ELSE "menu"
    /\ UNCHANGED <<WORDS, state>>

\* start_game: initialize_game, then play_round up to its first loop test.
InitializeGame(line, letters_to_reveal) ==
    /\ pc = "start"
    /\ line \in GetRandomWord(WORDS)
    /\ letters_to_reveal \in
           (IF game_mode = "easy" THEN SelectLettersForEasy(Upper(line)) ELSE {{}})
    /\ state' = InitialState(line, game_mode, letters_to_reveal)
    /\ pc' = "round"
    /\ output' = "started"
    /\ UNCHANGED <<WORDS, game_mode>>

\* One iteration of play_round's loop: process_player_turn on the raw input.
ProcessPlayerTurn(raw) ==
    /\ pc = "round"
    /\ RoundContinues(state)
    /\ LET player_letter == Upper(raw)
       IN  IF ~IsValidRussianLetter(player_letter)
           THEN /\ output' = "invalid"
                /\ UNCHANGED state
           ELSE IF AlreadyGuessed(state, player_letter[1])
           THEN /\ output' = "duplicate"
                /\ UNCHANGED state
           ELSE /\ state' = UpdateWordMask(state, player_letter[1])
                /\ output' = IF In(player_letter[1], state.word) THEN "hit" ELSE "miss"
    /\ UNCHANGED <<WORDS, pc, game_mode>>

\* The loop of play_round has ended: check_game_end reports the outcome.
CheckGameEnd ==
    /\ pc = "round"
    /\ ~RoundContinues(state)
    /\ output' = EndMessage(state)
    /\ pc' = "ended"
    /\ UNCHANGED <<WORDS, game_mode, state>>

\* start_game returns to main's loop; the round's state is discarded.
ReturnToMenu ==
    /\ pc = "ended"
    /\ pc' = "menu"
    /\ state' = NoState
    /\ UNCHANGED <<WORDS, game_mode, output>>

Next ==
    \/ \E found \in BOOLEAN :
           \E text \in OneLineFiles(WordLines) \cup {<<>>} :
               LoadWords(found, text) /\ UNCHANGED submitted
    \/ \E choice \in MenuChoices : ShowMenu(choice) /\ UNCHANGED submitted
    \/ \E line \in WordLines :
           \E sel \in SUBSET Range(Upper(line)) :
               InitializeGame(line, sel) /\ UNCHANGED submitted
    \/ \E raw \in Inputs : ProcessPlayerTurn(raw) /\ UNCHANGED submitted
    \/ CheckGameEnd /\ UNCHANGED submitted
    \/ ReturnToMenu /\ UNCHANGED submitted

Spec == Init /\ [][Next]_vars

\* initialize_game alone, on longer lines: the menu and the initialisation.
NextInit ==
    \/ \E found \in BOOLEAN :
           \E text \in OneLineFiles(LongWordLines) \cup {<<>>} :
               LoadWords(found, text) /\ UNCHANGED submitted
    \/ \E choice \in MenuChoices : ShowMenu(choice) /\ UNCHANGED submitted
    \/ \E line \in LongWordLines :
           \E sel \in SUBSET Range(Upper(line)) :
               InitializeGame(line, sel) /\ UNCHANGED submitted

SpecInit == Init /\ [][NextInit]_vars

\* The case-normalized form of a Cyrillic or Latin letter.
FoldCase(c) ==
    IF c >= 1072 /\ c <= 1103 THEN c - 32
    ELSE IF c = 1105 THEN 1025
    ELSE IF c >= 97 /\ c <= 122 THEN c - 32
    ELSE c

\* A turn whose input is a letter of the secret word, in either case.
TurnWithinWord(raw) ==
    /\ pc = "round"
    /\ Len(raw) = 1
    /\ FoldCase(raw[1]) \in Range(state.word)
    /\ ProcessPlayerTurn(raw)
    /\ submitted' = submitted \cup {FoldCase(raw[1])}

\* The rounds in which the player submits only letters of the secret word.
NextWithinWord ==
    \/ \E found \in BOOLEAN :
           \E text \in OneLineFiles(WordLines) \cup {<<>>} :
               LoadWords(found, text) /\ submitted' = {}
    \/ \E choice \in MenuChoices : ShowMenu(choice) /\ submitted' = {}
    \/ \E line \in WordLines :
           \E sel \in SUBSET Range(Upper(line)) :
               InitializeGame(line, sel) /\ submitted' = {}
    \/ \E raw \in Inputs : TurnWithinWord(raw)
    \/ CheckGameEnd /\ UNCHANGED submitted
    \/ ReturnToMenu /\ submitted' = {}

SpecWithinWord == Init /\ [][NextWithinWord]_vars

(* ------------------------- a scripted round ---------------------------- *)

\* The letters of the scripted secrets: Latin C, A, T and Cyrillic К, О, Т.
ScenarioLetters == {67, 65, 84, 1050, 1054, 1058}

\* The first guess of the script, a letter of no scripted secret: Latin Z, Cyrillic Я.
ScenarioMisses == {90, 1071}

\* The lines of words.txt for the script: three different letters, upper case.
ScenarioLines ==
    {line \in [1..3 -> ScenarioLetters] :
         line[1] # line[2] /\ line[1] # line[3] /\ line[2] # line[3]}

\* A turn of play_round in which input() returns the next guess of the script:
\* first a letter that is not in the secret, then the secret's letters in order.
ScenarioTurn ==
    /\ pc = "round"
    /\ Cardinality(submitted) <= Len(state.word)
    /\ \E raw \in (IF submitted = {}
                   THEN {<<miss>> : miss \in ScenarioMisses}
                   ELSE {<<state.word[Cardinality(submitted)]>>}) :
           /\ ProcessPlayerTurn(raw)
           /\ submitted' = submitted \cup {raw[1]}

\* The Normal-mode rounds in which the player follows the script.
NextScenario ==
    \/ \E found \in BOOLEAN :
           \E text \in OneLineFiles(ScenarioLines) \cup {<<>>} :
               LoadWords(found, text) /\ submitted' = {}
    \/ \E choice \in {"normal", "exit"} : ShowMenu(choice) /\ submitted' = {}
    \/ \E line \in ScenarioLines : InitializeGame(line, {}) /\ submitted' = {}
    \/ ScenarioTurn
    \/ CheckGameEnd /\ UNCHANGED submitted
    \/ ReturnToMenu /\ submitted' = {}

SpecScenario == Init /\ [][NextScenario]_vars

(* ------------------- check_game_end as a function ---------------------- *)

\* The GameState values of the word drawn from the line: any of its letters
\* shown in the mask, any error_count up to one past max_errors.
GameStates(line) ==
    {[word |-> Upper(line),
      mask |-> [i \in 1..Len(Upper(line)) |->
                    IF Upper(line)[i] \in shown THEN Upper(line)[i] ELSE PLACEHOLDER],
      error_count |-> errors,
      guessed_letters |-> SetToBag(shown),
      max_errors |-> MAX_ERRORS,
      game_mode |-> "normal"] :
         shown \in SUBSET Range(Upper(line)), errors \in 0..(MAX_ERRORS + 1)}

InitCheckGameEnd ==
    /\ \E line \in WordLines :
           /\ WORDS = <<line>>
           /\ state \in GameStates(line)
    /\ pc = "round"
    /\ game_mode = "normal"
    /\ output = "none"
    /\ submitted = {}

\* check_game_end applied to the state, where play_round's loop would stop.
NextCheckGameEnd == CheckGameEnd /\ UNCHANGED submitted

SpecCheckGameEnd == InitCheckGameEnd /\ [][NextCheckGameEnd]_vars

(* ------------------------- the words file ------------------------------ *)

\* The characters of words.txt: а, Б and the newline.
FileChars == {1072, 1041, NEWLINE}

\* The texts of words.txt.
WordFiles == SeqsUpTo(FileChars, MaxFileLen)

\* The start of main over any words.txt: the loading of the words, the menu,
\* the initialization of a round on a word of the list and, where the round is
\* over at once, its report.
NextWords ==
    \/ \E found \in BOOLEAN :
           \E text \in WordFiles : LoadWords(found, text) /\ UNCHANGED submitted
    \/ \E choice \in MenuChoices : ShowMenu(choice) /\ UNCHANGED submitted
    \/ \E line \in GetRandomWord(WORDS) : \E sel \in SUBSET Range(Upper(line)) :
           InitializeGame(line, sel) /\ UNCHANGED submitted
    \/ CheckGameEnd /\ UNCHANGED submitted
    \/ ReturnToMenu /\ UNCHANGED submitted

SpecWords == Init /\ [][NextWords]_vars

(* ------------------ rounds of fresh valid guesses ---------------------- *)

\* The number of letters of the supported alphabet: А..Я and Ё.
ALPHABET_SIZE == (CYR_YA - CYR_A + 1) + 1

\* A turn of play_round in which input() returns a valid letter that is not
\* in guessed_letters.
FreshTurn(raw) ==
    /\ pc = "round"
    /\ IsValidRussianLetter(Upper(raw))
    /\ ~AlreadyGuessed(state, Upper(raw)[1])
    /\ ProcessPlayerTurn(raw)

\* The lines of words.txt made of letters of the supported alphabet only.
SupportedLines ==
    SeqsUpTo({c \in WordChars : IsValidRussianLetter(UpperChar(c))}, MaxWordLen)

\* The rounds, on a word of supported letters, in which every input of the
\* player is a fresh valid letter.
NextFresh ==
    \/ \E found \in BOOLEAN :
           \E text \in OneLineFiles(SupportedLines) \cup {<<>>} :
               LoadWords(found, text) /\ UNCHANGED submitted
    \/ \E choice \in MenuChoices : ShowMenu(choice) /\ UNCHANGED submitted
    \/ \E line \in SupportedLines : \E sel \in SUBSET Range(Upper(line)) :
           InitializeGame(line, sel) /\ UNCHANGED submitted
    \/ \E raw \in Inputs : FreshTurn(raw) /\ UNCHANGED submitted
    \/ CheckGameEnd /\ UNCHANGED submitted
    \/ ReturnToMenu /\ UNCHANGED submitted

\* The program goes on while it can: the player answers every prompt.
SpecFresh == Init /\ [][NextFresh]_vars /\ WF_vars(NextFresh)

(* ------------------------- the supported alphabet ---------------------- *)

\* The 33 letters of the Russian alphabet, upper case: А..Я and Ё.
IsRussianUpper(c) == (c >= 1040 /\ c <= 1071) \/ c = 1025

\* The same letters in lower case: а..я and ё.
IsRussianLower(c) == (c >= 1072 /\ c <= 1103) \/ c = 1105

\* The upper-case form of a letter of the Russian alphabet.
CaseNormalized(c) ==
    IF c >= 1072 /\ c <= 1103 THEN c - 32 ELSE IF c = 1105 THEN 1025 ELSE c

\* The raw input is exactly one letter of the supported alphabet.
IsOneSupportedLetter(raw) ==
    Len(raw) = 1 /\ (IsRussianUpper(raw[1]) \/ IsRussianLower(raw[1]))

InRound == pc \in {"round", "ended"}

Revealed(st) == {i \in DOMAIN st.mask : st.mask[i] # PLACEHOLDER}

(* ------------------------------- claims -------------------------------- *)

\* C1: in every state of a round the mask is as long as the secret word and
\* each mask[i] is the placeholder or word[i].
C1_MaskMatchesWord ==
    InRound =>
        /\ Len(state.mask) = Len(state.word)
        /\ \A i \in DOMAIN state.mask : state.mask[i] \in {PLACEHOLDER, state.word[i]}

\* A round in which a hit has revealed part of a word that has several letters.
C1_Witness ==
    /\ pc = "round"
    /\ output = "hit"
    /\ Revealed(state) # {}
    /\ In(PLACEHOLDER, state.mask)
    /\ Cardinality(Range(state.word)) >= 2

\* C2: error_count never exceeds max_errors (6), and once it equals max_errors
\* the next step of the round is the report of a loss: no turn is processed and
\* the state is left as it is.
C2_ErrorBudget ==
    /\ [](InRound => state.max_errors = 6 /\ state.error_count <= state.max_errors)
    /\ [][(pc = "round" /\ state.error_count = state.max_errors)
            => (pc' = "ended" /\ output' = "loss" /\ state' = state)]_vars

\* A round reported as lost with the budget used up.
C2_Witness ==
    /\ pc = "ended"
    /\ output = "loss"
    /\ state.error_count = state.max_errors

\* C3: a turn whose input is one supported letter L (in either case) that is not yet
\* in guessed_letters adds L to guessed_letters; if L occurs in the word, every
\* position of L is revealed and every other mask position and error_count are
\* unchanged (hit); otherwise error_count grows by exactly 1 and the mask is
\* unchanged (miss).
C3_AcceptedGuess ==
    [][\A raw \in {r \in Inputs : IsOneSupportedLetter(r)} :
        (/\ ~BagIn(CaseNormalized(raw[1]), state.guessed_letters)
         /\ ProcessPlayerTurn(raw))
        => LET L == CaseNormalized(raw[1])
           IN  /\ state'.guessed_letters = state.guessed_letters (+) SetToBag({L})
               /\ state'.word = state.word
               /\ IF L \in Range(state.word)
                  THEN /\ state'.mask = [i \in DOMAIN state.mask |->
                                            IF state.word[i] = L THEN L ELSE state.mask[i]]
                       /\ state'.error_count = state.error_count
                       /\ output' = "hit"
                  ELSE /\ state'.mask = state.mask
                       /\ state'.error_count = state.error_count + 1
                       /\ output' = "miss"]_vars

\* A Normal-mode round with an accepted miss and then a hit on a letter that occurs
\* twice, both positions revealed and another position still hidden.
C3_Witness ==
    /\ pc = "round"
    /\ output = "hit"
    /\ state.game_mode = "normal"
    /\ state.error_count >= 1
    /\ In(PLACEHOLDER, state.mask)
    /\ \E i, j \in Revealed(state) : i # j /\ state.mask[i] = state.mask[j]

\* C4: a turn whose input is not exactly one letter of the supported alphabet is
\* rejected as invalid and changes nothing of the round's state.
C4_InvalidRejected ==
    [][\A raw \in {r \in Inputs : ~IsOneSupportedLetter(r)} :
        ProcessPlayerTurn(raw)
        => (output' = "invalid" /\ state' = state /\ pc' = pc /\ game_mode' = game_mode)]_vars

\* The lower-case form of an upper-case Cyrillic or Latin letter.
LowerOf(c) ==
    IF c >= 1040 /\ c <= 1071 THEN c + 32
    ELSE IF c = 1025 THEN 1105
    ELSE IF c >= 65 /\ c <= 90 THEN c + 32
    ELSE c

\* The raw inputs that are the letter L of guessed_letters, in either case.
Resubmissions(L) == {<<L>>, <<LowerOf(L)>>} \cap Inputs

\* C5 as stated: resubmitting a letter that is in guessed_letters, in either case,
\* is rejected as a duplicate and changes nothing of the round's state.
C5_ResubmittedIsDuplicate ==
    [][\A L \in BagToSet(state.guessed_letters) : \A raw \in Resubmissions(L) :
        (IsAlpha(L) /\ ProcessPlayerTurn(raw))
        => (output' = "duplicate" /\ state' = state)]_vars

\* C5 as amended: resubmitting a letter that is in guessed_letters, in either case,
\* changes nothing of the round's state; it is rejected as a duplicate when the
\* letter is of the supported alphabet and as invalid input otherwise.
C5_ResubmittedIsRejected ==
    [][\A L \in BagToSet(state.guessed_letters) : \A raw \in Resubmissions(L) :
        (IsAlpha(L) /\ ProcessPlayerTurn(raw))
        => /\ state' = state
           /\ output' = IF IsRussianUpper(L) THEN "duplicate" ELSE "invalid"]_vars

\* An Easy-mode round in which no guess has been accepted yet and a pre-revealed
\* letter has just been rejected as a duplicate.
C5_Witness ==
    /\ pc = "round"
    /\ output = "duplicate"
    /\ state.game_mode = "easy"
    /\ state.error_count = 0
    /\ Cardinality(Revealed(state)) = EASY_MODE_LETTERS

\* C6: in every state of a round no letter occurs twice in guessed_letters.
C6_NoLetterTwice ==
    InRound =>
        \A c \in BagToSet(state.guessed_letters) : CopiesIn(c, state.guessed_letters) = 1

\* An Easy-mode round with the pre-revealed letters, a hit and a miss recorded, in
\* which a resubmitted letter has just been rejected.
C6_Witness ==
    /\ pc = "round"
    /\ output = "duplicate"
    /\ state.game_mode = "easy"
    /\ state.error_count >= 1
    /\ BagCardinality(state.guessed_letters) >= EASY_MODE_LETTERS + 2

\* The round is won: the loop has ended and check_game_end reports the win.
Won ==
    /\ InRound
    /\ ~RoundContinues(state)
    /\ ~In(PLACEHOLDER, state.mask)
    /\ EndMessage(state) = "win"
    /\ pc = "ended" => output = "win"

\* C7 as stated: in a round whose inputs are all letters of the secret word, once
\* every letter of the word has been submitted the round is won with error_count 0.
C7_AllLettersWin ==
    (InRound /\ submitted = Range(state.word)) => (Won /\ state.error_count = 0)

\* C7 as amended: the same for a secret word made only of letters of the supported
\* alphabet.
C7_AllSupportedLettersWin ==
    (/\ InRound
     /\ \A c \in Range(state.word) : IsRussianUpper(c)
     /\ submitted = Range(state.word))
    => (Won /\ state.error_count = 0)

\* A won round of a word with two letters, one of them repeated, all submitted.
C7_Witness ==
    /\ pc = "ended"
    /\ output = "win"
    /\ submitted = Range(state.word)
    /\ Cardinality(submitted) = 2
    /\ Len(state.word) = 3

\* The letters of guessed_letters that do not occur in the secret word.
Misses(st) == BagToSet(st.guessed_letters) \ Range(st.word)

\* The player has hit no letter: the letters of the word in guessed_letters are
\* the pre-revealed ones (two in Easy mode, none in Normal mode).
NoPlayerHit(st) ==
    Cardinality(BagToSet(st.guessed_letters) \cap Range(st.word))
        = IF st.game_mode = "easy" THEN EASY_MODE_LETTERS ELSE 0

\* C8: while the player's accepted guesses are all letters that do not occur in the
\* secret word, the mask shows only the Easy-mode pre-reveal (nothing in Normal
\* mode); the round is lost once 6 such letters have been guessed, and not before.
C8_SixMissesLose ==
    (InRound /\ NoPlayerHit(state)) =>
        /\ Cardinality(Revealed(state))
               = IF state.game_mode = "easy" THEN EASY_MODE_LETTERS ELSE 0
        /\ Cardinality(Misses(state)) <= 6
        /\ Cardinality(Misses(state)) = 6 =>
               /\ ~RoundContinues(state)
               /\ EndMessage(state) = "loss"
               /\ pc = "ended" => output = "loss"
        /\ Cardinality(Misses(state)) < 6 =>
               /\ EndMessage(state) = "win"
               /\ ~In(PLACEHOLDER, state.mask) \/ RoundContinues(state)
               /\ pc = "ended" => output = "win"

\* An Easy-mode round lost by six misses, with only the pre-reveal in the mask.
C8_Witness ==
    /\ pc = "ended"
    /\ output = "loss"
    /\ state.game_mode = "easy"
    /\ NoPlayerHit(state)
    /\ Cardinality(Misses(state)) = 6
    /\ In(PLACEHOLDER, state.mask)

\* The letter c occurs exactly n times in word.
Occurs(word, c, n) == \E P \in SUBSET DOMAIN word :
    Cardinality(P) = n /\ \A i \in DOMAIN word : (word[i] = c) <=> (i \in P)

\* The round has just been initialized in the mode chosen in the menu.
JustInitialized(mode) == pc = "round" /\ output = "started" /\ game_mode = mode

\* The mask shows exactly the positions of the letters in shown.
MaskShows(st, shown) ==
    /\ Len(st.mask) = Len(st.word)
    /\ \A i \in DOMAIN st.mask :
           st.mask[i] = IF st.word[i] \in shown THEN st.word[i] ELSE PLACEHOLDER

\* C9: Easy-mode initialization of a word with at least two letters that occur
\* exactly once pre-reveals exactly 2 distinct letters, each occurring exactly
\* once: guessed_letters holds the two, the mask shows them at their positions,
\* error_count is 0 and the mode is still Easy.
C9_EasyRevealsTwoSingles ==
    (/\ JustInitialized("easy")
     /\ Cardinality({c \in Range(state.word) : Occurs(state.word, c, 1)}) >= 2)
    => /\ BagCardinality(state.guessed_letters) = 2
       /\ Cardinality(BagToSet(state.guessed_letters)) = 2
       /\ \A c \in BagToSet(state.guessed_letters) : Occurs(state.word, c, 1)
       /\ MaskShows(state, BagToSet(state.guessed_letters))
       /\ state.error_count = 0
       /\ state.game_mode = "easy"

\* An Easy-mode round just initialized on a word with two single letters and a
\* repeated one.
C9_Witness ==
    /\ JustInitialized("easy")
    /\ Cardinality({c \in Range(state.word) : Occurs(state.word, c, 1)}) = 2
    /\ \E c \in Range(state.word) : Occurs(state.word, c, 2)
    /\ Cardinality(Revealed(state)) = 2

\* The word has fewer than two letters occurring exactly once and at least one
\* letter occurring exactly twice.
PairsOnly(word) ==
    /\ Cardinality({c \in Range(word) : Occurs(word, c, 1)}) < 2
    /\ \E c \in Range(word) : Occurs(word, c, 2)

C11_EasyRevealsNothing ==
    (/\ JustInitialized("easy")
     /\ \A c \in Range(state.word) : Count(state.word, c) >= 3)
    => /\ state.guessed_letters = EmptyBag
       /\ MaskShows(state, {})
       /\ state.error_count = 0
       /\ state.game_mode = "normal"

C11_Witness ==
    /\ JustInitialized("easy")
    /\ Len(state.word) >= 3
    /\ \A c \in Range(state.word) : Count(state.word, c) >= 3
    /\ state.game_mode = "normal"

\* The scripted round on the word, begun with the guess miss, is under way or over.
ScenarioPlayed(word, miss) == InRound /\ state.word = word /\ miss \in submitted

\* The guesses of the script so far gave Miss, Hit, Hit, Hit, and the round
\* ends as a win with error_count = 1.
MissThenHits ==
    /\ pc = "round" => output = IF Cardinality(submitted) = 1 THEN "miss" ELSE "hit"
    /\ state.error_count = 1
    /\ Cardinality(Revealed(state)) = Cardinality(submitted) - 1
    /\ Cardinality(submitted) = 4 => Won
    /\ pc = "ended" => Cardinality(submitted) = 4 /\ output = "win"

\* C12 as stated: with the secret "CAT" in Normal mode, the guesses Z, C, A, T
\* in that order give Miss, Hit, Hit, Hit and the round ends in Win with
\* error_count = 1.
C12_CatScenario ==
    ScenarioPlayed(<<67, 65, 84>>, 90) => MissThenHits

\* C12, amended: with a secret of three different letters of the Russian
\* alphabet (such as "КОТ") in Normal mode, a Russian letter that is not in it
\* followed by its three letters in order give Miss, Hit, Hit, Hit and the round
\* ends in Win with error_count = 1; with the Latin secret "CAT", each of the
\* guesses Z, C, A, T is rejected as invalid and the state stays as initialized.
C12_SupportedScenario ==
    /\ \A word \in ScenarioLines : \A miss \in ScenarioMisses :
           (/\ \A i \in 1..3 : IsRussianUpper(word[i])
            /\ IsRussianUpper(miss)
            /\ ScenarioPlayed(word, miss))
           => MissThenHits
    /\ ScenarioPlayed(<<67, 65, 84>>, 90)
       => /\ pc = "round"
          /\ output = "invalid"
          /\ state = InitialState(<<67, 65, 84>>, "normal", {})
          /\ RoundContinues(state)

C12_Witness ==
    /\ ScenarioPlayed(<<1050, 1054, 1058>>, 1071)
    /\ pc = "ended"
    /\ output = "win"
    /\ state.error_count = 1
    /\ submitted = {1071, 1050, 1054, 1058}

\* The error budget is used up or the mask has no placeholder left.
Terminal(st) == st.error_count >= st.max_errors \/ ~In(PLACEHOLDER, st.mask)

\* C13: a round is over exactly when error_count >= max_errors or no placeholder
\* is left in the mask.  In a round state play_round can process a turn if and
\* only if neither holds; the step taken from a state where neither holds is a
\* turn, the step taken from a terminal state is the report of the end, which
\* leaves every field of the state as it is, and no turn follows the report.
C13_TerminalStops ==
    /\ [](pc = "round" =>
              ((ENABLED (\E raw \in Inputs : ProcessPlayerTurn(raw))) <=> ~Terminal(state)))
    /\ [](pc = "ended" => Terminal(state))
    /\ [][(pc = "round" /\ ~Terminal(state))
              => (pc' = "round" /\ output' \in {"invalid", "duplicate", "hit", "miss"})]_vars
    /\ [][(pc = "round" /\ Terminal(state))
              => (pc' = "ended" /\ state' = state)]_vars
    /\ [][pc = "ended" => pc' = "menu"]_vars

C13_Witness ==
    /\ pc = "ended"
    /\ Terminal(state)
    /\ state.error_count > 0
    /\ Cardinality(Revealed(state)) > 0

\* C14: when the round has ended, the outcome reported is the loss if and only
\* if error_count >= max_errors and the win otherwise; the loss is reported
\* also when the mask has no placeholder left.
C14_LossIffBudgetSpent ==
    pc = "ended"
    => /\ output \in {"win", "loss"}
       /\ output = "loss" <=> state.error_count >= state.max_errors
       /\ output = "win" <=> state.error_count < state.max_errors
       /\ (state.error_count >= state.max_errors /\ ~In(PLACEHOLDER, state.mask))
              => output = "loss"

C14_Witness ==
    /\ pc = "ended"
    /\ state.error_count >= state.max_errors
    /\ Len(state.word) > 0
    /\ ~In(PLACEHOLDER, state.mask)
    /\ output = "loss"

\* C15: every round is initialized with a non-empty secret.  Every word that
\* get_random_word can return from a list load_words has accepted is a
\* non-empty string, so the word of every round is non-empty; a missing or
\* empty words file is reported as an error on which main exits with no round
\* state created, and the menu is reached only with a non-empty list.
C15_NonEmptySecret ==
    /\ \A word \in GetRandomWord(WORDS) : word # <<>>
    /\ InRound => state.word # <<>>
    /\ output \in {"words_not_found", "words_empty"}
           => pc = "exit" /\ state = NoState /\ WORDS = <<>>
    /\ pc \in {"menu", "start", "round", "ended"} => WORDS # <<>>

\* C16: in every state of a round, position i of the mask is revealed if and
\* only if word[i] is in guessed_letters.
C16_RevealedIffGuessed ==
    InRound
    => /\ DOMAIN state.mask = DOMAIN state.word
       /\ \A i \in DOMAIN state.word :
              (state.mask[i] # PLACEHOLDER) <=> BagIn(state.word[i], state.guessed_letters)

C16_Witness ==
    /\ pc = "round"
    /\ state.game_mode = "easy"
    /\ output = "miss"
    /\ In(PLACEHOLDER, state.mask)
    /\ Cardinality(Revealed(state)) = 2
    /\ BagCardinality(state.guessed_letters) = 3

\* The number of elements of guessed_letters that do not occur in the word.
MissCount(st) ==
    BagCardinality([c \in {x \in BagToSet(st.guessed_letters) : ~In(x, st.word)}
                        |-> CopiesIn(c, st.guessed_letters)])

\* C17: in every state of a round error_count is the number of letters of
\* guessed_letters that do not occur in the secret word.  It is 0 when the round
\* starts, and a turn either leaves it as it is or, exactly when the turn is an
\* accepted miss, adds 1 to it; the report of the end does not change it.
C17_ErrorCountIsMisses ==
    /\ [](InRound => state.error_count = MissCount(state))
    /\ [](pc = "round" /\ output = "started" => state.error_count = 0)
    /\ [][(pc = "round" /\ pc' = "round")
              => /\ output' = "miss" => state'.error_count = state.error_count + 1
                 /\ output' # "miss" => state'.error_count = state.error_count]_vars
    /\ [][(pc = "round" /\ pc' = "ended")
              => state'.error_count = state.error_count]_vars

C17_Witness ==
    /\ pc = "round"
    /\ output = "hit"
    /\ state.error_count = 2
    /\ MissCount(state) = 2
    /\ BagCardinality(state.guessed_letters) = 4

\* C18: the condition of the loss and the condition of the win never hold
\* together: in no state of a round is error_count >= max_errors while the mask
\* has no placeholder left.
C18_WinLossExclusive ==
    InRound => ~(state.error_count >= state.max_errors /\ ~In(PLACEHOLDER, state.mask))

C18_Witness ==
    /\ pc = "ended"
    /\ output = "win"
    /\ state.error_count = state.max_errors - 1
    /\ Len(state.word) > 1

\* The secret word is made of letters of the supported alphabet only.
SupportedWord(st) == \A i \in DOMAIN st.word : IsRussianUpper(st.word[i])

\* The number of guesses accepted in the round: the elements of guessed_letters
\* but for the letters revealed by initialize_game.
Accepted(st) ==
    BagCardinality(st.guessed_letters)
        - (IF st.game_mode = "easy" THEN EASY_MODE_LETTERS ELSE 0)

\* C19: when every input of a turn is a valid letter that is not yet in
\* guessed_letters, a round on a secret of supported letters ends (win or loss),
\* and the number of accepted guesses never exceeds the 33 letters of the
\* alphabet: the guessed letters are different letters of the alphabet, and there
\* are at most max_errors - 1 more of them than the word has different letters.
\* Without the assumption the loop need not end: in every round state in which
\* the loop continues, a turn that leaves the state unchanged is possible.
C19_FreshGuessesTerminate ==
    /\ (pc = "round" /\ SupportedWord(state)) ~> (pc = "ended")
    /\ [](InRound /\ SupportedWord(state)
              => /\ Accepted(state) <= ALPHABET_SIZE
                 /\ \A c \in BagToSet(state.guessed_letters) :
                        IsRussianUpper(c) /\ CopiesIn(c, state.guessed_letters) = 1
                 /\ state.word # <<>>
                        => Accepted(state) <= Cardinality(Range(state.word)) + state.max_errors - 1)
    /\ [](pc = "round" /\ RoundContinues(state)
              => ENABLED (\E raw \in Inputs : ProcessPlayerTurn(raw) /\ state' = state))

C19_Witness ==
    /\ pc = "ended"
    /\ state.word # <<>>
    /\ SupportedWord(state)
    /\ Accepted(state) = Cardinality(Range(state.word)) + state.max_errors - 1

\* The secret word is two letters long and its letters differ.
TwoLetterSecret(st) == Len(st.word) = 2 /\ st.word[1] # st.word[2]

\* C20: Easy-mode initialization of a secret of two different letters returns a
\* state that is already terminal: both letters are revealed and recorded, the
\* mask has no placeholder, error_count is 0 and no turn can be processed; the
\* only step from it is the report of the end, which reports the win.
C20_EasyTwoLettersWonAtOnce ==
    /\ [](JustInitialized("easy") /\ TwoLetterSecret(state)
              => /\ state.guessed_letters = SetToBag(Range(state.word))
                 /\ state.mask = state.word
                 /\ ~In(PLACEHOLDER, state.mask)
                 /\ state.error_count = 0
                 /\ state.game_mode = "easy"
                 /\ ~ENABLED (\E raw \in Inputs : ProcessPlayerTurn(raw)))
    /\ [][JustInitialized("easy") /\ TwoLetterSecret(state)
              => pc' = "ended" /\ output' = "win" /\ state' = state]_vars

C20_Witness ==
    /\ pc = "ended"
    /\ game_mode = "easy"
    /\ TwoLetterSecret(state)
    /\ BagCardinality(state.guessed_letters) = 2
    /\ state.error_count = 0
    /\ output = "win"

====
